---- MODULE Spec2Model ----
(***************************************************************************)
(* Model of the camera controller of the run visualizer                   *)
(* (src/hooks/useCameraAnimation.js) as it is driven by React, the frame   *)
(* loop, two interval timers and the orbit controls.                       *)
(*                                                                         *)
(* React state (animationState, featuredTrackIndex) changes only when an   *)
(* update that a callback enqueued is rendered and committed; the refs     *)
(* that mirror it are written by passive effects, which run after the      *)
(* commit.  Timer, event and frame callbacks are separate tasks of one     *)
(* event loop and may run between an update and its commit, and between    *)
(* a commit and its passive effects.  Pending updates and pending effects  *)
(* are always processed before the clock advances by one tick.             *)
(***************************************************************************)
EXTENDS Integers, Sequences, FiniteSets, TLC

\* ------------------------------------------------------------------ bounds
\* Number of clock ticks the model follows.
MaxTicks == 10
\* Number of times the parent replaces the dataset or unmounts the Scene.
MaxReloads == 1
\* Number of different tracks arrays the parent can hand to the hook.
NumDatasets == 2
\* Largest number of tracks in a dataset.
MaxTracks == 3
\* Number of clock ticks the model follows when it checks progress.
LiveTicks == 24
\* Number of clock ticks after the mount during which the user still interacts.
QuietTicks == 6
\* Longest point list handed to downsampleTrack on its own.
MaxLen == 5
\* Number of different point objects in those lists.
NumPoints == 2
\* Largest maxPoints handed to downsampleTrack on its own.
MaxPoints == 3
\* Largest number of raw tracks handed to processTracks.
MaxRawTracks == 3
\* Number of points of a raw track that has to be downsampled.
LongTrackPoints == 1200
\* Largest number of <trk> elements in a GPX text handed to parseGPX.
MaxTrks == 2
\* Largest number of <trkpt> elements in a <trk>.
MaxTrkpts == 2
\* Largest distance, in hundredths of a degree, of a point from the centre.
MaxOffset == 2
\* Largest elevation of a point, in metres.
MaxEle == 2
\* Largest number of points of a track handed to calculateOptimalCameraPosition.
MaxBoxPoints == 2
\* Half the number of steps into which the time of one transition is divided
\* when its frames are followed on their own.
EaseHalfSteps == 4
\* Milliseconds by which Date.now() advances between two reads in RunnerOrbs.
ClockStepMillis == 15000
\* Number of such advances the model follows.
MaxClockSteps == 6

\* --------------------------------------------------------- program constants
intervalSeconds == 4
transitionMillis == 1500
inactivityTimeout == 3
checkInactivityMillis == 1000
enabled == TRUE
maxPointsPerTrack == 1000
projectionScale == 10000
cameraFov == 50
\* config.cameraAnimation.distancePaddingFactor (1.8), in tenths.
distancePaddingTenths == 18
minDistance == 50
maxDistance == 300
\* config.cameraAnimation.heightOffsetFactor (0.3), in tenths.
heightOffsetTenths == 3
\* config.elevationScale (0.1), in tenths.
elevationScaleTenths == 1
animationDuration == 60

RECURSIVE GCD(_, _)
GCD(a, b) == IF b = 0 THEN a ELSE GCD(b, a % b)

\* One clock tick: the largest unit in which every period of the program is
\* a whole number (half a second for the shipped configuration).
TickMillis ==
  GCD(GCD(intervalSeconds * 1000, transitionMillis),
      GCD(inactivityTimeout * 1000, checkInactivityMillis))

IntervalTicks == (intervalSeconds * 1000) \div TickMillis
TransitionTicks == transitionMillis \div TickMillis
InactivityTicks == (inactivityTimeout * 1000) \div TickMillis
CheckTicks == checkInactivityMillis \div TickMillis

\* Date.now() at mount.  lastInteractionRef starts at 0, far in the past.
MountTime == InactivityTicks + 1

Null == -1
NoDataset == 0
\* No update of the state / of the featured index is enqueued.
NoUpdate == "NoUpdate"
NoIndexUpdate == Null - 1
AnimationStates == {"AUTO", "TRANSITIONING", "USER_CONTROL"}

\* ---------------------------------------------------------------- datasets
Datasets == 1..NumDatasets

\* tracks.length of dataset d: the odd datasets have MaxTracks tracks, the even
\* ones a single track.
TrackCount(d) ==
  IF d = NoDataset THEN 0 ELSE IF d % 2 = 0 THEN 1 ELSE MaxTracks

\* Centre of the bounding box of track i of dataset d (one coordinate).
TrackCenter(d, i) == 27 * ((i + d) % 3)

\* Offsets the random viewing angles can put between the camera and the
\* centre of the framed track.
CameraOffsets == {54, 108}

\* Poses a user can drag the camera to: <<position, orbit target>>.
UserPoses == {<<90, 9>>}

\* config.cameraPosition and the initial target of the orbit controls.
InitialCameraPos == 150
InitialOrbitTarget == 0

VARIABLES
  now,                    \* Date.now(), in ticks
  mounted,                \* the Scene (and with it the hook) is mounted
  tracks,                 \* the tracks prop of the last render
  effTracks,              \* the tracks the interval effect was last set up for
  animationState,         \* React state, as of the last commit
  featuredTrackIndex,     \* React state, as of the last commit
  updState,               \* update enqueued by setAnimationState, not yet rendered
  updFeatured,            \* update enqueued by setFeaturedTrackIndex, not yet rendered
  animationStateRef,
  featuredTrackIndexRef,
  lastInteraction,        \* lastInteractionRef.current
  transitionStart,        \* transitionStartRef.current
  transitionData,         \* transitionDataRef.current: <<>> (null) or <<record>>
  listening,              \* handleInteraction is a 'change' listener
  timers,                 \* the interval timers of the event loop
  intervalTimerRef,
  inactivityHandle,       \* checkInactivity, as held by the effect's cleanup
  cameraPos,              \* camera.position
  orbitTarget,            \* orbitControlsRef.current.target
  reloads,                \* number of dataset changes and unmounts so far
  lastSelected,           \* history: last index the installed interval effect selected
  prevSelected,           \* history: the index it selected before that
  fn,                     \* a call of a function of utils.js: its arguments and result
  loader,                 \* TokyoRunVisualizer: its state and its load in flight
  driver                  \* RunnerOrbs: its props, its frame callback and the buffers

vars ==
  <<now, mounted, tracks, effTracks, animationState, featuredTrackIndex,
    updState, updFeatured, animationStateRef, featuredTrackIndexRef,
    lastInteraction, transitionStart, transitionData, listening, timers,
    intervalTimerRef, inactivityHandle, cameraPos, orbitTarget, reloads,
    lastSelected, prevSelected>>

\* The parts of the program outside the camera controller.
others == <<fn, loader, driver>>

allVars == <<vars, fn, loader, driver>>

\* ------------------------------------------------------------ React plumbing
\* A setState call of a mounted component enqueues an update; the last value
\* enqueued before the render wins.  On an unmounted component it does nothing.
SetState(pending, value) == IF mounted THEN value ELSE pending

\* Passive effects that the last commit left to run.
EffectsPending ==
  IF mounted
  THEN \/ ~listening
       \/ animationStateRef # animationState
       \/ featuredTrackIndexRef # featuredTrackIndex
       \/ effTracks # tracks
  ELSE listening

UpdatesPending == updState # NoUpdate \/ updFeatured # NoIndexUpdate

\* setInterval: a handle not in use.
FreshHandle(ts) == CHOOSE h \in 1..(Cardinality(ts) + 1) : \A t \in ts : t.id # h

\* setInterval(callback, period) by an effect of the render that saw `tracks`.
SetInterval(ts, kind, period) ==
  ts \cup {[id |-> FreshHandle(ts), kind |-> kind, tracks |-> tracks,
            due |-> now + period]}

ClearInterval(ts, h) == {t \in ts : t.id # h}

\* An interval timer that has fired is due again one period later.
Rearm(t, period) == (timers \ {t}) \cup {[t EXCEPT !.due = t.due + period]}

\* ------------------------------------------------------------- pure helpers
Min(a, b) == IF a < b THEN a ELSE b

\* easeInOutCubic(e / TransitionTicks), as a numerator over EasedDen.
EasedDen == TransitionTicks * TransitionTicks * TransitionTicks

\* Mutant: the ease-in branch is used for every progress.
easeInCubicOnly(e) == 4 * e * e * e

easeInOutCubic(e) ==
  IF 2 * e < TransitionTicks
  THEN 4 * e * e * e
  ELSE EasedDen - 4 * (TransitionTicks - e) * (TransitionTicks - e) * (TransitionTicks - e)

\* Vector3.lerpVectors(v1, v2, alpha), alpha = num / EasedDen.
lerpVectors(v1, v2, num) == v1 + ((v2 - v1) * num) \div EasedDen

\* calculateOptimalCameraPosition(tracks[i], fov): the position depends on
\* random angles, the target is the centre of the track's bounding box.
calculateOptimalCameraPosition(d, i, offset) ==
  [position |-> TrackCenter(d, i) + offset, target |-> TrackCenter(d, i)]

\* Mutant: the current featured index is not excluded.
selectRandomTrackNoExclusion(d, ftRef) ==
  IF TrackCount(d) = 0 THEN {Null} ELSE 0..(TrackCount(d) - 1)

\* Mutant: the random index is rounded up instead of down.
selectRandomTrackRoundedUp(d, ftRef) ==
  IF TrackCount(d) = 0
  THEN {Null}
  ELSE {i \in 1..TrackCount(d) : ~(i = ftRef /\ TrackCount(d) > 1)}

\* The indices selectRandomTrack can return for the closure's tracks d when
\* featuredTrackIndexRef.current is ftRef.
selectRandomTrack(d, ftRef) ==
  IF TrackCount(d) = 0
  THEN {Null}
  ELSE {i \in 0..(TrackCount(d) - 1) : ~(i = ftRef /\ TrackCount(d) > 1)}

\* ------------------------------------------------------------------ callbacks
\* Mutant: the start target is a new Vector3 instead of the orbit target.
startTransitionFromOrigin(d, trackIndex, offset) ==
  IF trackIndex < 0 \/ trackIndex >= TrackCount(d)
  THEN UNCHANGED <<transitionData, transitionStart, updState>>
  ELSE LET pose == calculateOptimalCameraPosition(d, trackIndex, offset)
       IN  /\ transitionData' =
                <<[startPosition |-> cameraPos,
                   startTarget |-> 0,
                   targetPosition |-> pose.position,
                   targetLookAt |-> pose.target]>>
           /\ transitionStart' = now
           /\ updState' = SetState(updState, "TRANSITIONING")

\* startTransition(trackIndex) of the interval effect set up for dataset d.
\* After an unmount orbitControlsRef.current is null and the start target is a
\* new Vector3.
startTransition(d, trackIndex, offset) ==
  IF trackIndex < 0 \/ trackIndex >= TrackCount(d)
  THEN UNCHANGED <<transitionData, transitionStart, updState>>
  ELSE LET pose == calculateOptimalCameraPosition(d, trackIndex, offset)
       IN  /\ transitionData' =
                <<[startPosition |-> cameraPos,
                   startTarget |-> IF mounted THEN orbitTarget ELSE 0,
                   targetPosition |-> pose.position,
                   targetLookAt |-> pose.target]>>
           /\ transitionStart' = now
           /\ updState' = SetState(updState, "TRANSITIONING")

\* Mutant: runInterval selects whatever the state.
runIntervalAnyState(d, stRef, ftRef, last, prev) ==
  \E newTrackIndex \in selectRandomTrack(d, ftRef), offset \in CameraOffsets :
    IF newTrackIndex # Null
    THEN /\ updFeatured' = SetState(updFeatured, newTrackIndex)
         /\ startTransition(d, newTrackIndex, offset)
         /\ lastSelected' = newTrackIndex
         /\ prevSelected' = last
    ELSE /\ UNCHANGED <<updFeatured, transitionData, transitionStart, updState>>
         /\ lastSelected' = last
         /\ prevSelected' = prev

\* runInterval of the interval effect set up for dataset d, reading stRef from
\* animationStateRef.current and ftRef from featuredTrackIndexRef.current.
\* last and prev are the history of the effect's earlier selections.
runInterval(d, stRef, ftRef, last, prev) ==
  IF stRef = "AUTO"
  THEN \E newTrackIndex \in selectRandomTrack(d, ftRef), offset \in CameraOffsets :
         IF newTrackIndex # Null
         THEN /\ updFeatured' = SetState(updFeatured, newTrackIndex)
              /\ startTransition(d, newTrackIndex, offset)
              /\ lastSelected' = newTrackIndex
              /\ prevSelected' = last
         ELSE /\ UNCHANGED <<updFeatured, transitionData, transitionStart, updState>>
              /\ lastSelected' = last
              /\ prevSelected' = prev
  ELSE /\ UNCHANGED <<updFeatured, transitionData, transitionStart, updState>>
       /\ lastSelected' = last
       /\ prevSelected' = prev

\* handleInteraction, the 'change' listener.
handleInteraction ==
  IF animationStateRef = "TRANSITIONING"
  THEN UNCHANGED <<lastInteraction, updState>>
  ELSE /\ lastInteraction' = now
       /\ updState' = IF animationStateRef = "AUTO"
                      THEN SetState(updState, "USER_CONTROL")
                      ELSE updState

\* Mutant: the elapsed time is taken the wrong way round.
checkInactivityReversed ==
  IF lastInteraction - now > InactivityTicks
  THEN updState' = SetState(updState, "AUTO")
  ELSE UNCHANGED updState

\* The callback of the checkInactivity interval.
checkInactivity ==
  IF now - lastInteraction > InactivityTicks
  THEN updState' = SetState(updState, "AUTO")
  ELSE UNCHANGED updState

\* Mutant: the controls are enabled whatever the state.
ControlsAlwaysEnabled == mounted

\* <OrbitControls enabled={!isTransitioning}> as last rendered.
ControlsEnabled == mounted /\ animationState # "TRANSITIONING"

\* Mutant: isAutoAnimating is the negation of user control.
isAutoAnimatingUnlessUser == animationState # "USER_CONTROL"

\* The hook's return value, as of the last render.
isAutoAnimating == animationState = "AUTO"

isTransitioning == animationState = "TRANSITIONING"

currentFeaturedTrackId == featuredTrackIndex

\* -------------------------------------------------------------------- state
Init ==
  /\ now = MountTime
  /\ mounted = TRUE
  /\ tracks \in Datasets
  /\ effTracks = NoDataset
  /\ animationState = "AUTO"
  /\ featuredTrackIndex = Null
  /\ updState = NoUpdate
  /\ updFeatured = NoIndexUpdate
  /\ animationStateRef = "AUTO"
  /\ featuredTrackIndexRef = Null
  /\ lastInteraction = 0
  /\ transitionStart = Null
  /\ transitionData = <<>>
  /\ listening = FALSE
  /\ timers = {}
  /\ intervalTimerRef = Null
  /\ inactivityHandle = Null
  /\ cameraPos = InitialCameraPos
  /\ orbitTarget = InitialOrbitTarget
  /\ reloads = 0
  /\ lastSelected = Null
  /\ prevSelected = Null
  /\ fn = <<>>
  /\ loader = <<>>
  /\ driver = <<>>

\* ------------------------------------------------------------------ actions
\* The clock advances once everything due now has run.
Tick ==
  /\ UNCHANGED others
  /\ now < MountTime + MaxTicks
  /\ ~UpdatesPending
  /\ ~EffectsPending
  /\ \A t \in timers : t.due > now
  /\ now' = now + 1
  /\ UNCHANGED <<reloads, mounted, tracks, effTracks, animationState, featuredTrackIndex,
                 updState, updFeatured, animationStateRef, featuredTrackIndexRef,
                 lastInteraction, transitionStart, transitionData, listening,
                 timers, intervalTimerRef, inactivityHandle, cameraPos,
                 orbitTarget, lastSelected, prevSelected>>

\* React renders the hook with the tracks prop newTracks and commits: every
\* enqueued update is applied.
Render(newTracks) ==
  /\ UNCHANGED others
  /\ mounted
  /\ ~EffectsPending
  /\ tracks' = newTracks
  /\ animationState' = IF updState # NoUpdate THEN updState ELSE animationState
  /\ featuredTrackIndex' =
       IF updFeatured # NoIndexUpdate THEN updFeatured ELSE featuredTrackIndex
  /\ updState' = NoUpdate
  /\ updFeatured' = NoIndexUpdate
  /\ UNCHANGED <<now, mounted, effTracks, animationStateRef, featuredTrackIndexRef,
                 lastInteraction, transitionStart, transitionData, listening,
                 timers, intervalTimerRef, inactivityHandle, cameraPos,
                 orbitTarget, lastSelected, prevSelected>>

\* A render caused by the hook's own state updates.
Commit ==
  /\ UpdatesPending
  /\ Render(tracks)
  /\ UNCHANGED reloads

\* The parent hands a new tracks array to the mounted Scene (setTracks of a
\* load that finishes while loading is already false).
TracksChange(d) ==
  /\ d # tracks
  /\ reloads < MaxReloads
  /\ reloads' = reloads + 1
  /\ Render(d)

\* The passive effects of the last commit: clean-ups of the effects whose
\* dependencies changed, then their set-ups in source order.
FlushEffects ==
  /\ UNCHANGED others
  /\ mounted
  /\ EffectsPending
  /\ LET stateChanged == animationStateRef # animationState
         tracksChanged == effTracks # tracks
         \* clean-up of the inactivity effect
         ts1 == IF stateChanged /\ inactivityHandle # Null
                THEN ClearInterval(timers, inactivityHandle) ELSE timers
         \* clean-up of the interval effect
         ts2 == IF tracksChanged /\ intervalTimerRef # Null
                THEN ClearInterval(ts1, intervalTimerRef) ELSE ts1
         startCheck == stateChanged /\ animationState = "USER_CONTROL"
         ts3 == IF startCheck THEN SetInterval(ts2, "inactivity", CheckTicks) ELSE ts2
         startInterval == tracksChanged /\ enabled /\ TrackCount(tracks) > 0
     IN  /\ animationStateRef' = animationState
         /\ featuredTrackIndexRef' = featuredTrackIndex
         /\ listening' = TRUE
         /\ inactivityHandle' =
              IF startCheck THEN FreshHandle(ts2)
              ELSE IF stateChanged THEN Null ELSE inactivityHandle
         /\ effTracks' = tracks
         /\ IF startInterval
            THEN /\ runInterval(tracks, animationState, featuredTrackIndex, Null, Null)
                 /\ timers' = SetInterval(ts3, "select", IntervalTicks)
                 /\ intervalTimerRef' = FreshHandle(ts3)
            ELSE /\ timers' = ts3
                 /\ intervalTimerRef' = IF tracksChanged THEN Null ELSE intervalTimerRef
                 /\ lastSelected' = IF tracksChanged THEN Null ELSE lastSelected
                 /\ prevSelected' = IF tracksChanged THEN Null ELSE prevSelected
                 /\ UNCHANGED <<updFeatured, transitionData, transitionStart, updState>>
  /\ UNCHANGED <<reloads, now, mounted, tracks, animationState, featuredTrackIndex,
                 lastInteraction, cameraPos, orbitTarget>>

\* The selection interval timer t fires.
SelectionTimer(t) ==
  /\ UNCHANGED others
  /\ t \in timers
  /\ t.kind = "select"
  /\ t.due = now
  /\ runInterval(t.tracks, animationStateRef, featuredTrackIndexRef,
                 lastSelected, prevSelected)
  /\ timers' = Rearm(t, IntervalTicks)
  /\ UNCHANGED <<reloads, now, mounted, tracks, effTracks, animationState,
                 featuredTrackIndex, animationStateRef, featuredTrackIndexRef,
                 lastInteraction, listening, intervalTimerRef, inactivityHandle,
                 cameraPos, orbitTarget>>

\* The inactivity interval timer t fires.
InactivityTimer(t) ==
  /\ UNCHANGED others
  /\ t \in timers
  /\ t.kind = "inactivity"
  /\ t.due = now
  /\ checkInactivity
  /\ timers' = Rearm(t, CheckTicks)
  /\ UNCHANGED <<reloads, now, mounted, tracks, effTracks, animationState,
                 featuredTrackIndex, updFeatured, animationStateRef,
                 featuredTrackIndexRef, lastInteraction, transitionStart,
                 transitionData, listening, intervalTimerRef, inactivityHandle,
                 cameraPos, orbitTarget, lastSelected, prevSelected>>

\* The orbit controls dispatch 'change': after a user gesture moved the camera
\* (only while the controls are enabled), or from update() without a gesture.
InteractionChange(pose) ==
  /\ UNCHANGED others
  /\ listening
  /\ \/ pose = <<cameraPos, orbitTarget>>
     \/ ControlsEnabled
  /\ cameraPos' = pose[1]
  /\ orbitTarget' = pose[2]
  /\ handleInteraction
  /\ UNCHANGED <<reloads, now, mounted, tracks, effTracks, animationState,
                 featuredTrackIndex, updFeatured, animationStateRef,
                 featuredTrackIndexRef, transitionStart, transitionData,
                 listening, timers, intervalTimerRef, inactivityHandle,
                 lastSelected, prevSelected>>

\* The useFrame callback of the last render.
Frame ==
  /\ UNCHANGED others
  /\ mounted
  /\ IF animationState # "TRANSITIONING" \/ transitionData = <<>>
     THEN UNCHANGED <<cameraPos, orbitTarget, updState, transitionData>>
     ELSE LET elapsed == now - transitionStart
              progress == Min(elapsed, TransitionTicks)
              easedProgress == easeInOutCubic(progress)
              data == transitionData[1]
          IN  /\ cameraPos' =
                   lerpVectors(data.startPosition, data.targetPosition, easedProgress)
              /\ orbitTarget' =
                   lerpVectors(data.startTarget, data.targetLookAt, easedProgress)
              /\ IF progress >= TransitionTicks
                 THEN /\ updState' = SetState(updState, "AUTO")
                      /\ transitionData' = <<>>
                 ELSE UNCHANGED <<updState, transitionData>>
  /\ UNCHANGED <<reloads, now, mounted, tracks, effTracks, animationState,
                 featuredTrackIndex, updFeatured, animationStateRef,
                 featuredTrackIndexRef, lastInteraction, transitionStart,
                 listening, timers, intervalTimerRef, inactivityHandle,
                 lastSelected, prevSelected>>

\* The parent stops rendering the Canvas (loading or error): the hook unmounts
\* and its enqueued updates are dropped.
Unmount ==
  /\ UNCHANGED others
  /\ mounted
  /\ ~EffectsPending
  /\ reloads < MaxReloads
  /\ reloads' = reloads + 1
  /\ mounted' = FALSE
  /\ updState' = NoUpdate
  /\ updFeatured' = NoIndexUpdate
  /\ UNCHANGED <<now, tracks, effTracks, animationState, featuredTrackIndex,
                 animationStateRef, featuredTrackIndexRef, lastInteraction,
                 transitionStart, transitionData, listening, timers,
                 intervalTimerRef, inactivityHandle, cameraPos, orbitTarget,
                 lastSelected, prevSelected>>

\* The clean-ups of the unmounted hook's effects; nothing refers to the
\* instance afterwards.
FlushUnmount ==
  /\ UNCHANGED others
  /\ ~mounted
  /\ EffectsPending
  /\ listening' = FALSE
  /\ timers' = ClearInterval(ClearInterval(timers, inactivityHandle), intervalTimerRef)
  /\ intervalTimerRef' = Null
  /\ inactivityHandle' = Null
  /\ tracks' = NoDataset
  /\ effTracks' = NoDataset
  /\ animationState' = "AUTO"
  /\ featuredTrackIndex' = Null
  /\ animationStateRef' = "AUTO"
  /\ featuredTrackIndexRef' = Null
  /\ lastInteraction' = 0
  /\ transitionStart' = Null
  /\ transitionData' = <<>>
  /\ cameraPos' = InitialCameraPos
  /\ orbitTarget' = InitialOrbitTarget
  /\ lastSelected' = Null
  /\ prevSelected' = Null
  /\ UNCHANGED <<reloads, now, mounted, updState, updFeatured>>

\* The parent renders the Canvas again with the tracks of a finished load: a
\* new instance of the hook.
Mount(d) ==
  /\ UNCHANGED others
  /\ ~mounted
  /\ ~EffectsPending
  /\ mounted' = TRUE
  /\ tracks' = d
  /\ UNCHANGED <<reloads, now, effTracks, animationState, featuredTrackIndex, updState,
                 updFeatured, animationStateRef, featuredTrackIndexRef,
                 lastInteraction, transitionStart, transitionData, listening,
                 timers, intervalTimerRef, inactivityHandle, cameraPos,
                 orbitTarget, lastSelected, prevSelected>>

Next ==
  \/ Tick
  \/ Commit
  \/ \E d \in Datasets : TracksChange(d)
  \/ FlushEffects
  \/ \E t \in timers : SelectionTimer(t)
  \/ \E t \in timers : InactivityTimer(t)
  \/ \E pose \in UserPoses \cup {<<cameraPos, orbitTarget>>} : InteractionChange(pose)
  \/ Frame
  \/ Unmount
  \/ FlushUnmount
  \/ \E d \in Datasets : Mount(d)

Spec == Init /\ [][Next]_vars

\* ------------------------------------------------------------ steady dataset
\* The controller when the parent never replaces the tracks of a mounted
\* Scene: every instance of the hook keeps the dataset it was mounted with.
SteadyNext ==
  \/ Tick
  \/ Commit
  \/ FlushEffects
  \/ \E t \in timers : SelectionTimer(t)
  \/ \E t \in timers : InactivityTimer(t)
  \/ \E pose \in UserPoses \cup {<<cameraPos, orbitTarget>>} : InteractionChange(pose)
  \/ Frame
  \/ Unmount
  \/ FlushUnmount
  \/ \E d \in Datasets : Mount(d)

SteadySpec == Init /\ [][SteadyNext]_vars

\* ------------------------------------------------------------------ progress
\* The controller under the assumptions of the progress claim: the Scene stays
\* mounted, frames and timers keep firing, and the user stops interacting.

\* A frame that ran now would change nothing.
FrameIdle ==
  \/ animationState # "TRANSITIONING"
  \/ transitionData = <<>>
  \/ /\ now - transitionStart < TransitionTicks
     /\ cameraPos = lerpVectors(transitionData[1].startPosition,
                                transitionData[1].targetPosition,
                                easeInOutCubic(Min(now - transitionStart, TransitionTicks)))
     /\ orbitTarget = lerpVectors(transitionData[1].startTarget,
                                  transitionData[1].targetLookAt,
                                  easeInOutCubic(Min(now - transitionStart, TransitionTicks)))

\* The clock advances once everything due now has run, a frame included: the
\* frame loop runs many times per tick.
LiveTick ==
  /\ UNCHANGED others
  /\ now < MountTime + LiveTicks
  /\ ~UpdatesPending
  /\ ~EffectsPending
  /\ FrameIdle
  /\ \A t \in timers : t.due > now
  /\ now' = now + 1
  /\ UNCHANGED <<reloads, mounted, tracks, effTracks, animationState, featuredTrackIndex,
                 updState, updFeatured, animationStateRef, featuredTrackIndexRef,
                 lastInteraction, transitionStart, transitionData, listening,
                 timers, intervalTimerRef, inactivityHandle, cameraPos,
                 orbitTarget, lastSelected, prevSelected>>

\* 'change' events: user gestures stop QuietTicks after the mount; the events
\* that update() dispatches for the controller's own camera writes go on.
QuietChange(pose) ==
  /\ \/ now < MountTime + QuietTicks
     \/ animationState = "TRANSITIONING" /\ transitionData # <<>>
  /\ InteractionChange(pose)

LiveNext ==
  \/ LiveTick
  \/ Commit
  \/ \E d \in Datasets : TracksChange(d)
  \/ FlushEffects
  \/ \E t \in timers : SelectionTimer(t)
  \/ \E t \in timers : InactivityTimer(t)
  \/ \E pose \in UserPoses \cup {<<cameraPos, orbitTarget>>} : QuietChange(pose)
  \/ Frame

\* React, the event loop and the frame loop run whatever is ready.
LiveSpec ==
  /\ Init
  /\ [][LiveNext]_vars
  /\ WF_vars(LiveTick)
  /\ WF_vars(Commit)
  /\ WF_vars(FlushEffects)
  /\ WF_vars(\E t \in timers : SelectionTimer(t))
  /\ WF_vars(\E t \in timers : InactivityTimer(t))
  /\ WF_vars(Frame)

\* ------------------------------------------------------------------ utils.js
\* The camera controller of a page that renders no Scene.
CameraAtRest ==
  /\ now = MountTime
  /\ mounted = FALSE
  /\ tracks = NoDataset
  /\ effTracks = NoDataset
  /\ animationState = "AUTO"
  /\ featuredTrackIndex = Null
  /\ updState = NoUpdate
  /\ updFeatured = NoIndexUpdate
  /\ animationStateRef = "AUTO"
  /\ featuredTrackIndexRef = Null
  /\ lastInteraction = 0
  /\ transitionStart = Null
  /\ transitionData = <<>>
  /\ listening = FALSE
  /\ timers = {}
  /\ intervalTimerRef = Null
  /\ inactivityHandle = Null
  /\ cameraPos = InitialCameraPos
  /\ orbitTarget = InitialOrbitTarget
  /\ reloads = 0
  /\ lastSelected = Null
  /\ prevSelected = Null

\* The arrays of at most n elements of S.
SeqsUpTo(S, n) == UNION {[1..k -> S] : k \in 0..n}

\* Mutant: the last point is not appended.
downsampleTrackStrideOnly(points, maxPoints) ==
  IF Len(points) <= maxPoints
  THEN points
  ELSE [i \in 1..maxPoints |-> points[((i - 1) * Len(points)) \div maxPoints + 1]]

\* downsampleTrack(points, maxPoints).  Point objects are compared by identity;
\* Math.floor(i * step) is taken in exact arithmetic (in doubles it can be one
\* less, never more, and never reaches the end of the list).
downsampleTrack(points, maxPoints) ==
  IF Len(points) <= maxPoints
  THEN points
  ELSE LET downsampled ==
             [i \in 1..maxPoints |-> points[((i - 1) * Len(points)) \div maxPoints + 1]]
       IN  IF downsampled[Len(downsampled)] # points[Len(points)]
           THEN Append(downsampled, points[Len(points)])
           ELSE downsampled

\* downsampleTrack is called with a list of point objects, which may hold the
\* same object more than once.
DownsampleInit ==
  /\ CameraAtRest
  /\ fn \in [points : SeqsUpTo(1..NumPoints, MaxLen), maxPoints : 1..MaxPoints,
              result : {<<>>}]
  /\ loader = <<>>
  /\ driver = <<>>

DownsampleCall ==
  /\ fn.result = <<>>
  /\ fn' = [fn EXCEPT !.result = <<downsampleTrack(fn.points, fn.maxPoints)>>]
  /\ UNCHANGED <<vars, loader, driver>>

DownsampleSpec == DownsampleInit /\ [][DownsampleCall]_allVars

\* NaN; a number n is <<n>>.
NaN == <<>>

isNaN(x) == x = NaN

\* The text of an attribute or of an element: whether it is there at all, the
\* number its longest numeric prefix denotes (NaN if it has none), and whether
\* anything follows that prefix.
NoText == [present |-> FALSE, number |-> NaN, junk |-> FALSE]

Numeral(n) == [present |-> TRUE, number |-> <<n>>, junk |-> FALSE]

NumeralAndJunk(n) == [present |-> TRUE, number |-> <<n>>, junk |-> TRUE]

NoNumeral == [present |-> TRUE, number |-> NaN, junk |-> TRUE]

\* parseFloat(text): the number of the longest numeric prefix, whatever follows
\* it; NaN when there is no such prefix or the argument is null.
parseFloat(text) == IF text.present THEN text.number ELSE NaN

\* The <trkpt> elements of the GPX texts: lat and lon attributes and the <ele>
\* child, in tenths.
Trkpts ==
  {[lat |-> Numeral(351), lon |-> Numeral(1391), ele |-> NoText],
   [lat |-> Numeral(352), lon |-> NumeralAndJunk(1392), ele |-> Numeral(120)],
   [lat |-> NoText, lon |-> Numeral(1391), ele |-> NoText],
   [lat |-> Numeral(351), lon |-> NoNumeral, ele |-> Numeral(120)],
   [lat |-> Numeral(353), lon |-> Numeral(1393), ele |-> NoNumeral]}

\* The inner loop of parseGPX over the <trkpt> elements of one track, from j.
RECURSIVE trkptLoop(_, _, _)
trkptLoop(trkpts, j, points) ==
  IF j >= Len(trkpts)
  THEN points
  ELSE LET trkpt == trkpts[j + 1]
           lat == parseFloat(trkpt.lat)
           lon == parseFloat(trkpt.lon)
           ele == IF trkpt.ele.present THEN parseFloat(trkpt.ele) ELSE <<0>>
       IN  IF ~isNaN(lat) /\ ~isNaN(lon)
           THEN trkptLoop(trkpts, j + 1,
                  Append(points, [lat |-> lat, lon |-> lon, ele |-> ele]))
           ELSE trkptLoop(trkpts, j + 1, points)

\* The outer loop of parseGPX over the <trk> elements, from i.
RECURSIVE trkLoop(_, _, _)
trkLoop(trkElements, i, parsed) ==
  IF i >= Len(trkElements)
  THEN parsed
  ELSE LET trkpts == trkElements[i + 1]
           points == trkptLoop(trkpts, 0, <<>>)
       IN  IF Len(trkpts) = 0
           THEN trkLoop(trkElements, i + 1, parsed)
           ELSE IF Len(points) > 0
           THEN trkLoop(trkElements, i + 1,
                  Append(parsed, [points |-> points, metadata |-> [index |-> i]]))
           ELSE trkLoop(trkElements, i + 1, parsed)

\* parseGPX(gpxString), the GPX text given by its <trk> elements.
parseGPX(trkElements) == trkLoop(trkElements, 0, <<>>)

ParseInit ==
  /\ CameraAtRest
  /\ fn \in [gpx : SeqsUpTo(SeqsUpTo(Trkpts, MaxTrkpts), MaxTrks), result : {<<>>}]
  /\ loader = <<>>
  /\ driver = <<>>

ParseCall ==
  /\ fn.result = <<>>
  /\ fn' = [fn EXCEPT !.result = <<parseGPX(fn.gpx)>>]
  /\ UNCHANGED <<vars, loader, driver>>

ParseSpec == ParseInit /\ [][ParseCall]_allVars

\* Math.cos(lat * Math.PI / 180) in thousandths, for a latitude in hundredths
\* of a degree between -90 and 90 degrees (Bhaskara's approximation on whole
\* degrees): even in lat, 1000 at the equator, positive short of the poles.
cosMilli(lat) ==
  LET d == (IF lat < 0 THEN -lat ELSE lat) \div 100
  IN  (1000 * (32400 - 4 * d * d)) \div (32400 + d * d)

latScale == projectionScale

\* lonScale of gpsToCartesian, per degree.
lonScale(center) == (projectionScale * cosMilli(center.lat)) \div 1000

\* Mutant: z grows with the latitude.
gpsToCartesianNorthPositive(lat, lon, ele, center) ==
  [x |-> (lon - center.lon) * lonScale(center),
   y |-> ele * elevationScaleTenths,
   z |-> (lat - center.lat) * latScale]

\* gpsToCartesian(lat, lon, ele, center): lat and lon in hundredths of a degree,
\* so x and z in hundredths; ele in metres and y in tenths.
gpsToCartesian(lat, lon, ele, center) ==
  [x |-> (lon - center.lon) * lonScale(center),
   y |-> ele * elevationScaleTenths,
   z |-> (-(lat - center.lat)) * latScale]

\* The centres of the datasets: on the equator, Tokyo, its mirror image in the
\* south, and a place in the far north.
Centers == [lat : {0, 3568, -3568, 6000}, lon : {13977, -100}]

GpsInit ==
  /\ CameraAtRest
  /\ \E center \in Centers :
       fn \in [lat : {center.lat + o : o \in (-MaxOffset)..MaxOffset},
               lon : {center.lon + o : o \in (-MaxOffset)..MaxOffset},
               ele : (-1)..MaxEle, center : {center}, result : {<<>>}]
  /\ loader = <<>>
  /\ driver = <<>>

GpsCall ==
  /\ fn.result = <<>>
  /\ fn' = [fn EXCEPT !.result = <<gpsToCartesian(fn.lat, fn.lon, fn.ele, fn.center)>>]
  /\ UNCHANGED <<vars, loader, driver>>

GpsSpec == GpsInit /\ [][GpsCall]_allVars

\* Math.sin of an angle of x degrees, 0 <= x <= 180, in thousandths (Bhaskara's
\* approximation); Math.cos of x degrees is sinMilli(90 - x) for x up to 90.
sinMilli(x) == (4000 * x * (180 - x)) \div (40500 - x * (180 - x))

\* Math.tan(fovRadians / 2) in thousandths, for an even cameraFov in degrees
\* between 0 and 180, both excluded: a positive number.
tanHalfMilli(fov) == (1000 * sinMilli(fov \div 2)) \div sinMilli(90 - fov \div 2)

Max(a, b) == IF a > b THEN a ELSE b

\* bounds of calculateTrackBoundingBox after the points from k on; <<>> stands
\* for the initial Infinity / -Infinity.
RECURSIVE boundsFrom(_, _, _)
boundsFrom(points, k, bounds) ==
  IF k > Len(points)
  THEN bounds
  ELSE LET point == points[k]
       IN  boundsFrom(points, k + 1,
             IF bounds = <<>>
             THEN <<[minX |-> point.x, maxX |-> point.x, minY |-> point.y,
                     maxY |-> point.y, minZ |-> point.z, maxZ |-> point.z]>>
             ELSE <<[minX |-> Min(bounds[1].minX, point.x),
                     maxX |-> Max(bounds[1].maxX, point.x),
                     minY |-> Min(bounds[1].minY, point.y),
                     maxY |-> Max(bounds[1].maxY, point.y),
                     minZ |-> Min(bounds[1].minZ, point.z),
                     maxZ |-> Max(bounds[1].maxZ, point.z)]>>)

\* calculateTrackBoundingBox(track) of a track with at least one point whose
\* coordinates are even numbers.
calculateTrackBoundingBox(points) ==
  LET bounds == boundsFrom(points, 1, <<>>)[1]
  IN  [center |-> [x |-> (bounds.minX + bounds.maxX) \div 2,
                   y |-> (bounds.minY + bounds.maxY) \div 2,
                   z |-> (bounds.minZ + bounds.maxZ) \div 2],
       size |-> [x |-> bounds.maxX - bounds.minX,
                 y |-> bounds.maxY - bounds.minY,
                 z |-> bounds.maxZ - bounds.minZ]]

\* Mutant: the distance is not capped at maxDistance.
framingDistanceUncapped(bbox, fov) ==
  LET maxDimension == Max(bbox.size.x, bbox.size.z)
      paddedTenths == (maxDimension * 1000 * distancePaddingTenths) \div (2 * tanHalfMilli(fov))
  IN  Max(minDistance * 10, paddedTenths)

\* distance of calculateOptimalCameraPosition, in tenths.
framingDistance(bbox, fov) ==
  LET maxDimension == Max(bbox.size.x, bbox.size.z)
      paddedTenths == (maxDimension * 1000 * distancePaddingTenths) \div (2 * tanHalfMilli(fov))
  IN  Max(minDistance * 10, Min(maxDistance * 10, paddedTenths))

\* cos and sin of the random horizontal angle, as a direction along an axis.
HorizontalAngles == {<<1, 0>>, <<0, 1>>, <<-1, 0>>, <<0, -1>>}

\* The random vertical angle, in degrees.
VerticalAngles == {10, 30, 90}

\* calculateOptimalCameraPosition(track, cameraFov) for the given values of
\* Math.random(): position and target in tenths, and the distance it used.
optimalCameraPosition(points, fov, horizontalAngle, verticalAngle) ==
  LET bbox == calculateTrackBoundingBox(points)
      distance == framingDistance(bbox, fov)
      heightOffset == (distance * sinMilli(verticalAngle)) \div 1000
      horizontalDistance == (distance * sinMilli(90 - verticalAngle)) \div 1000
  IN  [position |->
         [x |-> bbox.center.x * 10 + horizontalDistance * horizontalAngle[1],
          y |-> bbox.center.y * 10 + heightOffset + bbox.size.y * heightOffsetTenths,
          z |-> bbox.center.z * 10 + horizontalDistance * horizontalAngle[2]],
       target |-> [x |-> bbox.center.x * 10, y |-> bbox.center.y * 10,
                   z |-> bbox.center.z * 10],
       distance |-> distance]

\* The points of the tracks to frame, and the fields of view of the camera.
BoxPoints == [x : {-200, 0, 60, 200}, y : {0, 4}, z : {0, 10}]

Fovs == {2, 30, cameraFov, 90, 120, 178}

PoseInit ==
  /\ CameraAtRest
  /\ fn \in [points : UNION {[1..n -> BoxPoints] : n \in 2..MaxBoxPoints},
              fov : Fovs, horizontalAngle : HorizontalAngles,
              verticalAngle : VerticalAngles, result : {<<>>}]
  /\ loader = <<>>
  /\ driver = <<>>

PoseCall ==
  /\ fn.result = <<>>
  /\ fn' = [fn EXCEPT !.result =
              <<optimalCameraPosition(fn.points, fn.fov, fn.horizontalAngle,
                                      fn.verticalAngle)>>]
  /\ UNCHANGED <<vars, loader, driver>>

PoseSpec == PoseInit /\ [][PoseCall]_allVars

\* The points of a raw track of n points: n different objects, numbered in
\* track order.
Points(n) == [k \in 1..n |-> k]

\* The raw tracks handed to processTracks: the number of their points, and
\* whether new THREE.CatmullRomCurve3 succeeds on them.
RawTrackKinds ==
  [count : {0, 1}, curve : {TRUE}]
    \cup [count : {2, LongTrackPoints}, curve : BOOLEAN]

RECURSIVE totalPoints(_, _)
totalPoints(rawTracks, k) ==
  IF k > Len(rawTracks) THEN 0 ELSE rawTracks[k].count + totalPoints(rawTracks, k + 1)

\* calculateCenter(tracks): the sums divided by the number of points, which is
\* NaN (0 / 0) and no exception when there is no point.
calculateCenter(rawTracks) ==
  [totalPoints |-> totalPoints(rawTracks, 1),
   lat |-> IF totalPoints(rawTracks, 1) = 0 THEN "NaN" ELSE "mean"]

\* Mutant: ids are counted from one.
processedTrackOneBased(trackData, index) ==
  LET track == Points(trackData.count)
      points3D == downsampleTrack(track, maxPointsPerTrack)
  IN  [id |-> index + 1,
       curve |-> TRUE,
       originalPointCount |-> Len(track),
       processedPointCount |-> Len(points3D),
       startPoint |-> track[1],
       endPoint |-> track[Len(track)]]

\* The object processTracks pushes for the raw track at `index`.
processedTrack(trackData, index) ==
  LET track == Points(trackData.count)
      points3D == downsampleTrack(track, maxPointsPerTrack)
  IN  [id |-> index,
       curve |-> TRUE,
       originalPointCount |-> Len(track),
       processedPointCount |-> Len(points3D),
       startPoint |-> track[1],
       endPoint |-> track[Len(track)]]

\* Mutant: the first track that is dropped ends the loop.
RECURSIVE forEachTrackUntilDropped(_, _, _)
forEachTrackUntilDropped(rawTracks, index, processedTracks) ==
  IF index >= Len(rawTracks)
  THEN processedTracks
  ELSE LET trackData == rawTracks[index + 1]
           points3D == downsampleTrack(Points(trackData.count), maxPointsPerTrack)
       IN  IF Len(points3D) < 2 \/ ~trackData.curve
           THEN processedTracks
           ELSE forEachTrackUntilDropped(rawTracks, index + 1,
                  Append(processedTracks, processedTrack(trackData, index)))

\* tracks.forEach((trackData, index) => ...) of processTracks, from `index` on.
RECURSIVE forEachTrack(_, _, _)
forEachTrack(rawTracks, index, processedTracks) ==
  IF index >= Len(rawTracks)
  THEN processedTracks
  ELSE LET trackData == rawTracks[index + 1]
           points3D == downsampleTrack(Points(trackData.count), maxPointsPerTrack)
       IN  IF Len(points3D) < 2
           THEN forEachTrack(rawTracks, index + 1, processedTracks)
           ELSE IF ~trackData.curve
           THEN forEachTrack(rawTracks, index + 1, processedTracks)
           ELSE forEachTrack(rawTracks, index + 1,
                  Append(processedTracks, processedTrack(trackData, index)))

\* processTracks(tracks): what it throws, the centre it computed and the array
\* it returns.
processTracks(rawTracks) ==
  IF Len(rawTracks) = 0
  THEN [threw |-> "nothing", center |-> <<>>, processedTracks |-> <<>>]
  ELSE [threw |-> "nothing",
        center |-> <<calculateCenter(rawTracks)>>,
        processedTracks |-> forEachTrack(rawTracks, 0, <<>>)]

ProcessInit ==
  /\ CameraAtRest
  /\ fn \in [tracks : SeqsUpTo(RawTrackKinds, MaxRawTracks), result : {<<>>}]
  /\ loader = <<>>
  /\ driver = <<>>

ProcessCall ==
  /\ fn.result = <<>>
  /\ fn' = [fn EXCEPT !.result = <<processTracks(fn.tracks)>>]
  /\ UNCHANGED <<vars, loader, driver>>

ProcessSpec == ProcessInit /\ [][ProcessCall]_allVars

\* ------------------------------------------------- frames of one transition
\* The time of a transition in steps: progress is elapsed / EaseSteps.
EaseSteps == 2 * EaseHalfSteps

\* The two branches of easeInOutCubic at t = num / den, as numerators over
\* den^3: 4 * t * t * t and 1 - Math.pow(-2 * t + 2, 3) / 2.
easeInBranch(num, den) == 4 * num * num * num

easeOutBranch(num, den) ==
  den * den * den - ((2 * den - 2 * num) * (2 * den - 2 * num) * (2 * den - 2 * num)) \div 2

\* Mutant: the branches are taken the wrong way round.
easeInOutCubicSwapped(num, den) ==
  IF 2 * num < den THEN easeOutBranch(num, den) ELSE easeInBranch(num, den)

\* easeInOutCubic(num / den), as a numerator over den^3.
easeInOutCubicAt(num, den) ==
  IF 2 * num < den THEN easeInBranch(num, den) ELSE easeOutBranch(num, den)

\* Vector3.lerpVectors(v1, v2, alpha), alpha = num / den.
lerpVectorsAt(v1, v2, num, den) == v1 + ((v2 - v1) * num) \div den

\* Coordinates of the start and end poses of a transition.
PoseCoords == {-40, 0, 24, 150}

\* startTransition has recorded the endpoints; no frame has run yet.
EaseInit ==
  /\ CameraAtRest
  /\ fn \in [startPosition : PoseCoords, targetPosition : PoseCoords,
              elapsed : {0}, progress : {0}, easedProgress : {0},
              position : {<<>>}, frames : {0}, done : {FALSE}]
  /\ loader = <<>>
  /\ driver = <<>>

\* A frame of the transition, `elapsed` steps after transitionStart.
EaseFrame(elapsed) ==
  /\ ~fn.done
  /\ elapsed >= fn.elapsed
  /\ LET progress == Min(elapsed, EaseSteps)
         easedProgress == easeInOutCubicAt(progress, EaseSteps)
     IN  fn' = [fn EXCEPT
           !.elapsed = elapsed,
           !.progress = progress,
           !.easedProgress = easedProgress,
           !.position = <<lerpVectorsAt(fn.startPosition, fn.targetPosition, easedProgress,
                                        EaseSteps * EaseSteps * EaseSteps)>>,
           !.frames = Min(@ + 1, 2),
           !.done = progress >= EaseSteps]
  /\ UNCHANGED <<vars, loader, driver>>

EaseNext == \E elapsed \in 0..(EaseSteps + 1) : EaseFrame(elapsed)

EaseSpec == EaseInit /\ [][EaseNext]_allVars

\* ---------------------------------------------------------- slow transitions
\* The controller configured with a transitionSeconds longer than
\* intervalSeconds: a selection-timer tick falls into every transition.
SlowTransitionTicks == IntervalTicks + 1

\* The useFrame callback of the last render under that configuration.
SlowFrame ==
  /\ UNCHANGED others
  /\ mounted
  /\ IF animationState # "TRANSITIONING" \/ transitionData = <<>>
     THEN UNCHANGED <<cameraPos, orbitTarget, updState, transitionData>>
     ELSE LET elapsed == now - transitionStart
              progress == Min(elapsed, SlowTransitionTicks)
              easedProgress == easeInOutCubicAt(progress, SlowTransitionTicks)
              den == SlowTransitionTicks * SlowTransitionTicks * SlowTransitionTicks
              data == transitionData[1]
          IN  /\ cameraPos' =
                   lerpVectorsAt(data.startPosition, data.targetPosition, easedProgress, den)
              /\ orbitTarget' =
                   lerpVectorsAt(data.startTarget, data.targetLookAt, easedProgress, den)
              /\ IF progress >= SlowTransitionTicks
                 THEN /\ updState' = SetState(updState, "AUTO")
                      /\ transitionData' = <<>>
                 ELSE UNCHANGED <<updState, transitionData>>
  /\ UNCHANGED <<reloads, now, mounted, tracks, effTracks, animationState,
                 featuredTrackIndex, updFeatured, animationStateRef,
                 featuredTrackIndexRef, lastInteraction, transitionStart,
                 listening, timers, intervalTimerRef, inactivityHandle,
                 lastSelected, prevSelected>>

SlowNext ==
  \/ Tick
  \/ Commit
  \/ \E d \in Datasets : TracksChange(d)
  \/ FlushEffects
  \/ \E t \in timers : SelectionTimer(t)
  \/ \E t \in timers : InactivityTimer(t)
  \/ \E pose \in UserPoses \cup {<<cameraPos, orbitTarget>>} : InteractionChange(pose)
  \/ SlowFrame
  \/ Unmount
  \/ FlushUnmount
  \/ \E d \in Datasets : Mount(d)

SlowSpec == Init /\ [][SlowNext]_vars

\* ---------------------------------------------------------------- RunnerOrbs
\* The tracks prop: what processTracks retained of up to MaxRawTracks raw
\* tracks, each with its id; a curve can be missing.
RECURSIVE Ascending(_)
Ascending(ids) ==
  IF ids = {} THEN <<>>
  ELSE LET m == CHOOSE x \in ids : \A y \in ids : x <= y
       IN  <<m>> \o Ascending(ids \ {m})

DriverTracks ==
  UNION {{[k \in 1..Cardinality(ids) |-> [id |-> Ascending(ids)[k], curve |-> c[k]]] :
            c \in [1..Cardinality(ids) -> BOOLEAN]} :
         ids \in (SUBSET (0..(MaxRawTracks - 1))) \ {{}}}

\* Date.now() when RunnerOrbs is first rendered.
DriverMountClock == MountTime * TickMillis

\* Mutant: the elapsed time is not wrapped.
frameProgressUnwrapped(elapsedMillis, animationLoop) ==
  IF animationLoop
  THEN elapsedMillis
  ELSE Min(elapsedMillis, animationDuration * 1000)

\* progress of the frame as a numerator over animationDuration * 1000, from
\* the milliseconds elapsed since startTimeRef.current.
frameProgress(elapsedMillis, animationLoop) ==
  IF animationLoop
  THEN elapsedMillis % (animationDuration * 1000)
  ELSE Min(elapsedMillis, animationDuration * 1000)

DriverInit ==
  /\ CameraAtRest
  /\ fn = <<>>
  /\ loader = <<>>
  /\ driver \in
       {[tracks |-> t, featuredTrackIndex |-> f, animationLoop |-> l,
         startTime |-> DriverMountClock, clock |-> DriverMountClock,
         pc |-> "idle", frames |-> 0, clockReads |-> 0, elapsed |-> 0, progress |-> 0,
         i |-> 0, nonFeaturedIndex |-> 0, featuredIndex |-> 0,
         nonFeatured |-> <<>>, featured |-> <<>>,
         nonFeaturedCount |-> 0, featuredCount |-> 0] :
          t \in DriverTracks, f \in {Null} \cup (0..(MaxRawTracks - 1)), l \in BOOLEAN}

\* Time passes, between frames and while a frame callback runs.
DriverClock ==
  /\ driver.clock < DriverMountClock + MaxClockSteps * ClockStepMillis
  /\ driver' = [driver EXCEPT !.clock = @ + ClockStepMillis]
  /\ UNCHANGED <<vars, fn, loader>>

\* The parent re-renders RunnerOrbs with another featured index, between two
\* frames.
DriverProps(f) ==
  /\ driver.pc = "idle"
  /\ f # driver.featuredTrackIndex
  /\ driver' = [driver EXCEPT !.featuredTrackIndex = f]
  /\ UNCHANGED <<vars, fn, loader>>

\* The frame callback up to its loop: the clock is read and progress computed.
FrameStart ==
  /\ driver.pc = "idle"
  /\ driver' = [driver EXCEPT
       !.pc = "loop",
       !.frames = Min(@ + 1, 2),
       !.clockReads = 1,
       !.elapsed = driver.clock - driver.startTime,
       !.progress = frameProgress(driver.clock - driver.startTime, driver.animationLoop),
       !.i = 0, !.nonFeaturedIndex = 0, !.featuredIndex = 0,
       !.nonFeatured = <<>>, !.featured = <<>>]
  /\ UNCHANGED <<vars, fn, loader>>

\* Mutant: the clock is read again for every track.
loopBodyRereadingClock(d) ==
  LET track == d.tracks[d.i + 1]
      progress == frameProgress(d.clock - d.startTime, d.animationLoop)
      entry == [track |-> d.i, id |-> track.id, progress |-> progress]
  IN  IF ~track.curve
      THEN [d EXCEPT !.i = @ + 1]
      ELSE IF d.i = d.featuredTrackIndex
      THEN [d EXCEPT !.i = @ + 1, !.clockReads = @ + 1,
                     !.featured = Append(@, entry), !.featuredIndex = @ + 1]
      ELSE [d EXCEPT !.i = @ + 1, !.clockReads = @ + 1,
                     !.nonFeatured = Append(@, entry), !.nonFeaturedIndex = @ + 1]

\* One pass of the loop over the tracks, for track d.i.
loopBody(d) ==
  LET track == d.tracks[d.i + 1]
      entry == [track |-> d.i, id |-> track.id, progress |-> d.progress]
  IN  IF ~track.curve
      THEN [d EXCEPT !.i = @ + 1]
      ELSE IF d.i = d.featuredTrackIndex
      THEN [d EXCEPT !.i = @ + 1,
                     !.featured = Append(@, entry), !.featuredIndex = @ + 1]
      ELSE [d EXCEPT !.i = @ + 1,
                     !.nonFeatured = Append(@, entry), !.nonFeaturedIndex = @ + 1]

\* The loop of a frame from track d.i to the last track.
RECURSIVE runLoop(_)
runLoop(d) == IF d.i >= Len(d.tracks) THEN d ELSE runLoop(loopBody(d))

\* What the loop of a frame writes when RunnerOrbs was rendered with the first
\* n tracks of a dataset, all with curves, and the featured index f.
frameOver(n, f) ==
  runLoop([tracks |-> [k \in 1..n |-> [id |-> k - 1, curve |-> TRUE]],
           featuredTrackIndex |-> f, progress |-> 0, i |-> 0,
           nonFeaturedIndex |-> 0, featuredIndex |-> 0,
           nonFeatured |-> <<>>, featured |-> <<>>])

FrameTrack ==
  /\ driver.pc = "loop"
  /\ driver.i < Len(driver.tracks)
  /\ driver' = loopBody(driver)
  /\ UNCHANGED <<vars, fn, loader>>

\* After the loop the instance counts are set.
FrameEnd ==
  /\ driver.pc = "loop"
  /\ driver.i >= Len(driver.tracks)
  /\ driver' = [driver EXCEPT !.pc = "idle",
                               !.nonFeaturedCount = driver.nonFeaturedIndex,
                               !.featuredCount = driver.featuredIndex]
  /\ UNCHANGED <<vars, fn, loader>>

DriverNext ==
  \/ DriverClock
  \/ \E f \in {Null} \cup (0..(MaxRawTracks - 1)) : DriverProps(f)
  \/ FrameStart
  \/ FrameTrack
  \/ FrameEnd

DriverSpec == DriverInit /\ [][DriverNext]_allVars

\* -------------------------------------------------------- TokyoRunVisualizer
\* The GPX paths the parent can pass as gpxFilePath.
Paths == 1..NumDatasets

\* What a path can turn out to be when it is loaded: fetch rejects or answers
\* with a status that is not ok; response.text() rejects; or a GPX text,
\* given by the tracks parseGPX finds in it (each with at least one point).
Sources ==
  [status : {"unreadable", "textFails"}, raw : {<<>>}]
    \cup [status : {"ok"},
          raw : SeqsUpTo({k \in RawTrackKinds : k.count \in {1, 2}}, MaxRawTracks)]

\* What the component renders.
View(l) ==
  IF l.loading THEN "loading"
  ELSE IF l.error # "null" THEN "error"
  ELSE IF l.tracks = <<>> \/ l.tracks = <<<<>>>> THEN "noTracks"
  ELSE "scene"

\* tracks[featuredTrackIndex] of a tracks array of n elements: <<>> stands for
\* undefined, which an index outside the array gives without an exception.
trackAt(n, featuredIndex) ==
  IF featuredIndex \in 0..(n - 1) THEN <<featuredIndex>> ELSE <<>>

\* What InfoOverlay renders for the featuredTrack prop.
InfoOverlay(featuredTrack) == IF featuredTrack = <<>> THEN "null" ELSE "card"

LoaderInit ==
  /\ CameraAtRest
  /\ fn = <<>>
  /\ driver = <<>>
  /\ \E path \in Paths :
       loader = [gpxFilePath |-> path, effPath |-> 0, changes |-> 0, started |-> 0,
                 tracks |-> <<>>, loading |-> TRUE, error |-> "null", center |-> <<>>,
                 inflight |-> {}, finished |-> <<>>]

\* The effect of the last render: loadGPXData runs up to its first await.
RunLoadEffect(source) ==
  /\ loader.effPath # loader.gpxFilePath
  /\ loader' = [loader EXCEPT
       !.effPath = loader.gpxFilePath,
       !.started = @ + 1,
       !.loading = TRUE,
       !.error = "null",
       !.inflight = @ \cup {[n |-> loader.started + 1, path |-> loader.gpxFilePath,
                              source |-> source, pc |-> "fetch"]}]
  /\ UNCHANGED <<vars, fn, driver>>

\* The parent renders the component with another gpxFilePath.
ChangePath(path) ==
  /\ path # loader.gpxFilePath
  /\ loader.effPath = loader.gpxFilePath
  /\ loader.changes < MaxReloads
  /\ loader' = [loader EXCEPT !.gpxFilePath = path, !.changes = @ + 1]
  /\ UNCHANGED <<vars, fn, driver>>

\* catch and finally of loadGPXData.
loadFails(l, load) ==
  [l EXCEPT !.error = "failed", !.loading = FALSE,
            !.inflight = @ \ {load}, !.finished = <<load>>]

\* The rest of the try block after response.text(), and finally.
loadSucceeds(l, load) ==
  LET processedTracks == processTracks(load.source.raw).processedTracks
  IN  [l EXCEPT !.center = <<calculateCenter(load.source.raw)>>,
                !.tracks = <<processedTracks>>,
                !.loading = FALSE,
                !.inflight = @ \ {load}, !.finished = <<load>>]

\* await fetch(gpxFilePath) settles.
FetchSettles(load) ==
  /\ load \in loader.inflight
  /\ load.pc = "fetch"
  /\ loader' =
       IF load.source.status = "unreadable"
       THEN loadFails(loader, load)
       ELSE [loader EXCEPT !.inflight = (@ \ {load}) \cup {[load EXCEPT !.pc = "text"]}]
  /\ UNCHANGED <<vars, fn, driver>>

\* await response.text() settles.
TextSettles(load) ==
  /\ load \in loader.inflight
  /\ load.pc = "text"
  /\ loader' =
       IF load.source.status = "textFails"
       THEN loadFails(loader, load)
       ELSE loadSucceeds(loader, load)
  /\ UNCHANGED <<vars, fn, driver>>

LoaderNext ==
  \/ \E source \in Sources : RunLoadEffect(source)
  \/ \E path \in Paths : ChangePath(path)
  \/ \E load \in loader.inflight : FetchSettles(load)
  \/ \E load \in loader.inflight : TextSettles(load)

LoaderSpec == LoaderInit /\ [][LoaderNext]_allVars

\* =================================================================== claims
\* Steps of the model that are a run of one callback.
InteractionStep ==
  \E pose \in UserPoses \cup {<<cameraPos, orbitTarget>>} : InteractionChange(pose)

SelectionTimerStep == \E t \in timers : SelectionTimer(t)

InactivityTimerStep == \E t \in timers : InactivityTimer(t)

\* The frame callback gets past its guard.
FrameActs == animationState = "TRANSITIONING" /\ transitionData # <<>>

\* C1: a 'change' event delivered while the controller state is TRANSITIONING
\* leaves the state TRANSITIONING and changes nothing: lastInteraction, the
\* featured index and the recorded transition endpoints stay as they are and
\* no state update is enqueued.
C1_SelfInteractionImmunity ==
  [][(InteractionStep /\ mounted /\ animationState = "TRANSITIONING")
       => UNCHANGED <<lastInteraction, updState, updFeatured, featuredTrackIndex,
                      transitionData, transitionStart>>]_vars

\* C2: a 'change' event delivered while the controller is in AUTO sets
\* lastInteraction to the time of the event and moves the controller to
\* USER_CONTROL; delivered in USER_CONTROL it refreshes lastInteraction and
\* asks for no state other than USER_CONTROL.
C2_InteractionEntersUserControl ==
  [][(InteractionStep /\ mounted)
       => /\ animationState = "AUTO"
               => (lastInteraction' = now /\ updState' = "USER_CONTROL")
          /\ animationState = "USER_CONTROL"
               => (lastInteraction' = now /\ updState' \in {updState, "USER_CONTROL"})]_vars

\* C3: while the controller is in USER_CONTROL no selection-timer tick selects
\* a track or starts a transition, and the featured index does not change: the
\* controller leaves USER_CONTROL with the featured index it entered with, and
\* never for TRANSITIONING.
C3_NoSelectionInUserControl ==
  [][(mounted /\ mounted' /\ animationState = "USER_CONTROL")
       => /\ featuredTrackIndex' = featuredTrackIndex
          /\ animationState' # "TRANSITIONING"
          /\ SelectionTimerStep
               => UNCHANGED <<updFeatured, updState, transitionData, transitionStart>>]_vars

\* C4: the controller leaves USER_CONTROL only for AUTO, and only when the
\* last interaction is strictly more than inactivityTimeout old.
C4_LeavesUserControlOnlyByInactivity ==
  [][(mounted /\ mounted' /\ animationState = "USER_CONTROL"
        /\ animationState' # "USER_CONTROL")
       => /\ animationState' = "AUTO"
          /\ now - lastInteraction > InactivityTicks]_vars

\* C5: with more than one track, two consecutive selections of the installed
\* interval effect pick different tracks; with exactly one track a selection
\* returns that track.
C5_NoRepeat ==
  /\ (TrackCount(effTracks) > 1 /\ lastSelected # Null /\ prevSelected # Null)
       => lastSelected # prevSelected
  /\ (TrackCount(effTracks) = 1 /\ lastSelected # Null) => lastSelected = 0

\* Two consecutive selections have been made on a dataset of several tracks.
C5_Witness ==
  /\ TrackCount(effTracks) > 1
  /\ lastSelected # Null
  /\ prevSelected # Null
  /\ featuredTrackIndex = prevSelected
  /\ updFeatured = lastSelected

C7_FrameSeesConsistentState ==
  mounted => ((transitionData # <<>>) <=> (animationState = "TRANSITIONING"))

\* C8: when the interval effect is set up for a new dataset, so before any
\* selection on it, the controller is in AUTO with no featured track and no
\* transition data.
C8_ResetOnDatasetChange ==
  [][(FlushEffects /\ effTracks' # effTracks)
       => /\ animationState = "AUTO"
          /\ featuredTrackIndex = Null
          /\ transitionData = <<>>]_vars

\* C9: a timer callback runs only while the hook is mounted with the dataset
\* it was created under, and at most one selection timer is active.
C9_NoStaleTimers ==
  /\ [][\A t \in timers :
          (SelectionTimer(t) \/ InactivityTimer(t)) => (mounted /\ t.tracks = tracks)]_vars
  /\ [](Cardinality({t \in timers : t.kind = "select"}) <= 1)

\* A step in which runInterval of the mounted hook selects a track and calls
\* startTransition.
SelectsAndStarts ==
  /\ mounted
  /\ \/ SelectionTimerStep /\ animationStateRef = "AUTO"
     \/ FlushEffects /\ effTracks # tracks /\ animationState = "AUTO"
          /\ TrackCount(tracks) > 0

\* C10: a selection of the mounted hook records the camera position and the
\* orbit target of that moment as the start of the transition, and a frame at
\* progress 0 writes that recorded pose.
C10_TransitionStartsAtCurrentPose ==
  /\ [][SelectsAndStarts
          => /\ transitionData' # <<>>
             /\ transitionData'[1].startPosition = cameraPos
             /\ transitionData'[1].startTarget = orbitTarget
             /\ transitionStart' = now]_vars
  /\ [][(Frame /\ FrameActs /\ now = transitionStart)
          => /\ cameraPos' = transitionData[1].startPosition
             /\ orbitTarget' = transitionData[1].startTarget]_vars

\* After a period of USER_CONTROL that inactivity ended, a transition has been
\* started from the pose the user dragged the camera to, and a frame has moved
\* the camera on from there.
C10_Witness ==
  /\ transitionData # <<>>
  /\ lastInteraction > 0
  /\ transitionStart - lastInteraction > InactivityTicks
  /\ \E pose \in UserPoses :
       /\ transitionData[1].startPosition = pose[1]
       /\ transitionData[1].startTarget = pose[2]
  /\ animationState = "TRANSITIONING"
  /\ cameraPos # transitionData[1].startPosition

\* Longest wait for a selection once the user is quiet: the inactivity timeout,
\* one period of the inactivity check and one selection interval.
Reach == InactivityTicks + CheckTicks + IntervalTicks

\* C11: with tracks loaded, from every state that leaves the model time enough,
\* the controller eventually is in AUTO again and eventually makes a new
\* featured selection.
C11_NoTerminalState ==
  /\ (mounted /\ now <= MountTime + LiveTicks - Reach) ~> (animationState = "AUTO")
  /\ (mounted /\ now <= MountTime + LiveTicks - Reach) ~> (updFeatured # NoIndexUpdate)

\* After a period of USER_CONTROL the controller has returned to AUTO and has
\* just made a new selection.
C11_Witness ==
  /\ lastInteraction > 0
  /\ animationState = "AUTO"
  /\ now - lastInteraction > InactivityTicks
  /\ updFeatured # NoIndexUpdate
  /\ transitionStart = now

ValidRawTracks(raw) ==
  {i \in 0..(Len(raw) - 1) :
     /\ Min(raw[i + 1].count, maxPointsPerTrack + 1) >= 2
     /\ raw[i + 1].curve}

C14_IdIsRawIndex ==
  fn.result # <<>> =>
    \A k \in 1..Len(fn.result[1].processedTracks) :
      LET id == fn.result[1].processedTracks[k].id
      IN  /\ id \in 0..(Len(fn.tracks) - 1)
          /\ id \in ValidRawTracks(fn.tracks)
          /\ Cardinality({i \in ValidRawTracks(fn.tracks) : i < id}) = k - 1

\* A track has been dropped in front of a retained one, whose id is not its
\* position in the returned list.
C14_Witness ==
  /\ fn.result # <<>>
  /\ Len(fn.tracks) = 3
  /\ Len(fn.result[1].processedTracks) = 2
  /\ fn.result[1].processedTracks[1].id = 1
  /\ fn.result[1].processedTracks[2].id = 2

\* C19: processTracks on tracks without any point fails with an
\* EmptyDatasetError, computes no centre and returns nothing.
C19_EmptyDatasetError ==
  (fn.result # <<>> /\ totalPoints(fn.tracks, 1) = 0) =>
    /\ fn.result[1].threw = "EmptyDatasetError"
    /\ fn.result[1].center = <<>>

\* The entries the frame has written for the track at position p.
WrittenTo(buffer, p) == {k \in 1..Len(buffer) : buffer[k].track = p}

\* C15: when the loop of a frame is through, every track with a curve has one
\* entry in exactly one buffer, in the featured buffer if and only if its id
\* is the featured index the controller reported; a track without a curve has
\* no entry; the featured buffer holds at most one entry.
C15_BuffersPartitionByFeaturedId ==
  (driver.pc = "loop" /\ driver.i >= Len(driver.tracks)) =>
    /\ \A p \in 0..(Len(driver.tracks) - 1) :
         LET inFeatured == Cardinality(WrittenTo(driver.featured, p))
             inNormal == Cardinality(WrittenTo(driver.nonFeatured, p))
         IN  IF driver.tracks[p + 1].curve
             THEN /\ inFeatured + inNormal = 1
                  /\ inFeatured = 1 <=> driver.tracks[p + 1].id = driver.featuredTrackIndex
             ELSE inFeatured + inNormal = 0
    /\ Len(driver.featured) <= 1

C17_OneClockReadPerFrame ==
  /\ driver.clockReads <= 1
  /\ \A k \in 1..Len(driver.nonFeatured) : driver.nonFeatured[k].progress = driver.progress
  /\ \A k \in 1..Len(driver.featured) : driver.featured[k].progress = driver.progress

\* Time has passed while a frame was in its loop, and the frame has written
\* tracks before and after.
C17_Witness ==
  /\ driver.pc = "loop"
  /\ driver.clock - driver.startTime > driver.elapsed
  /\ frameProgress(driver.clock - driver.startTime, driver.animationLoop) # driver.progress
  /\ Len(driver.nonFeatured) + Len(driver.featured) >= 2

\* A step in which a load ends: its try block completes or its catch runs.
LoadEnds == loader'.finished # <<>> /\ loader'.finished # loader.finished

\* C18: a load of a source that cannot be read, or that leaves no valid
\* track, ends with loading finished and the failure page shown, no Scene; a
\* load that leaves valid tracks ends with the Scene running on exactly the
\* tracks processTracks returned.
C18_LoadOutcome ==
  [][LoadEnds =>
       LET load == loader'.finished[1]
           valid == ValidRawTracks(load.source.raw)
       IN  /\ ~loader'.loading
           /\ IF load.source.status # "ok" \/ valid = {}
              THEN View(loader') \in {"error", "noTracks"}
              ELSE /\ View(loader') = "scene"
                   /\ Len(loader'.tracks[1]) = Cardinality(valid)
                   /\ \A k \in 1..Len(loader'.tracks[1]) :
                         loader'.tracks[1][k].id \in valid]_allVars

\* C20: the orbit controls of the mounted Scene handle user input exactly
\* when the controller is in AUTO or USER_CONTROL, and no user gesture moves
\* the camera in a state in which the controller is TRANSITIONING.
C20_ControlsDisabledWhileTransitioning ==
  /\ [](mounted =>
          /\ animationState = "TRANSITIONING" => ~ControlsEnabled
          /\ animationState \in {"AUTO", "USER_CONTROL"} => ControlsEnabled)
  /\ [][(InteractionStep /\ <<cameraPos', orbitTarget'>> # <<cameraPos, orbitTarget>>)
          => animationState # "TRANSITIONING"]_vars

\* The controller is writing the camera with the controls disabled, after the
\* user had moved it.
C20_Witness ==
  /\ mounted
  /\ listening
  /\ animationState = "TRANSITIONING"
  /\ ~ControlsEnabled
  /\ transitionData # <<>>
  /\ lastInteraction > 0
  /\ now > transitionStart
  /\ cameraPos \notin {p[1] : p \in UserPoses}

\* C21: the controller state is always one of AUTO, TRANSITIONING and
\* USER_CONTROL, and it is AUTO until the hook's effects have first run;
\* isAutoAnimating holds exactly in AUTO and isTransitioning exactly in
\* TRANSITIONING, so never both; and the exposed featured track is null as long
\* as the hook instance has made no selection (no transition was ever started).
C21_StateAndFlags ==
  /\ animationState \in AnimationStates
  /\ (mounted /\ effTracks = NoDataset) => animationState = "AUTO"
  /\ isAutoAnimating <=> animationState = "AUTO"
  /\ isTransitioning <=> animationState = "TRANSITIONING"
  /\ ~(isAutoAnimating /\ isTransitioning)
  /\ transitionStart = Null => currentFeaturedTrackId = Null

\* The first selection has been committed: a featured track is exposed and the
\* hook reports a transition and no auto animation.
C21_Witness ==
  /\ mounted
  /\ transitionStart # Null
  /\ currentFeaturedTrackId # Null
  /\ isTransitioning
  /\ ~isAutoAnimating
  /\ prevSelected = Null

\* The featured index the hook exposes is not an index of the tracks it was
\* last rendered with.
FeaturedMissing ==
  /\ mounted
  /\ featuredTrackIndex # Null
  /\ featuredTrackIndex >= TrackCount(tracks)

\* C22: while the featured index refers to no existing track, a frame of
\* RunnerOrbs writes every track to the normal buffer and nothing to the
\* featured one, the overlay renders nothing, and a selection made in that
\* situation picks a track of the current dataset and starts the transition
\* toward that track.
C22_MissingFeaturedTrack ==
  /\ [](FeaturedMissing =>
          /\ frameOver(TrackCount(tracks), featuredTrackIndex).featured = <<>>
          /\ Len(frameOver(TrackCount(tracks), featuredTrackIndex).nonFeatured)
                = TrackCount(tracks)
          /\ InfoOverlay(trackAt(TrackCount(tracks), featuredTrackIndex)) = "null")
  /\ [][(FeaturedMissing /\ SelectsAndStarts)
          => /\ updFeatured' \in 0..(TrackCount(tracks) - 1)
             /\ transitionData' # <<>>
             /\ transitionData'[1].targetLookAt = TrackCenter(tracks, updFeatured')]_vars

\* A <trkpt> whose lat and lon both start with a number.
ValidTrkpt(trkpt) == ~isNaN(trkpt.lat.number) /\ ~isNaN(trkpt.lon.number)

\* C23: parseGPX returns, in input order, the tracks that have at least one
\* point whose lat and lon are numbers; each holds exactly those points, in
\* their order, with the parsed lat and lon, and every retained point has a
\* number (not NaN) as lat, lon and elevation, the elevation being 0 when the
\* point has no <ele>.
C23_ParseSkipsBadPoints ==
  fn.result # <<>> =>
    LET out == fn.result[1]
    IN  /\ \A k \in 1..Len(out) :
              LET i == out[k].metadata.index
                  kept == SelectSeq(fn.gpx[i + 1], ValidTrkpt)
              IN  /\ Len(out[k].points) = Len(kept)
                  /\ Len(kept) > 0
                  /\ \A j \in 1..Len(kept) :
                        LET point == out[k].points[j]
                        IN  /\ point.lat = kept[j].lat.number
                            /\ point.lon = kept[j].lon.number
                            /\ ~isNaN(point.lat)
                            /\ ~isNaN(point.lon)
                            /\ ~isNaN(point.ele)
                            /\ ~kept[j].ele.present => point.ele = <<0>>
        /\ \A k \in 1..(Len(out) - 1) : out[k].metadata.index < out[k + 1].metadata.index

\* C24: gpsToCartesian maps the centre with elevation 0 to (0, 0, 0); x is the
\* longitude offset times a scale that is a function of the centre alone, z is
\* minus the latitude offset times projectionScale, so z is negative exactly
\* when the point lies north of the centre and zero exactly on its latitude,
\* and y is the elevation times elevationScale.
C24_Projection ==
  fn.result # <<>> =>
    LET r == fn.result[1]
    IN  /\ (fn.lat = fn.center.lat /\ fn.lon = fn.center.lon /\ fn.ele = 0)
              => r = [x |-> 0, y |-> 0, z |-> 0]
        /\ r.x = (fn.lon - fn.center.lon) * lonScale(fn.center)
        /\ r.z = 0 - (fn.lat - fn.center.lat) * projectionScale
        /\ r.z < 0 <=> fn.lat > fn.center.lat
        /\ r.z = 0 <=> fn.lat = fn.center.lat
        /\ r.y = fn.ele * elevationScaleTenths

\* A point north-east of Tokyo and above sea level has been projected to
\* negative z, positive x and positive y.
C24_Witness ==
  /\ fn.result # <<>>
  /\ fn.center.lat = 3568
  /\ fn.lat > fn.center.lat
  /\ fn.lon > fn.center.lon
  /\ fn.ele > 0
  /\ fn.result[1].z < 0
  /\ fn.result[1].x > 0
  /\ fn.result[1].x < (fn.lon - fn.center.lon) * projectionScale
  /\ fn.result[1].y > 0

\* The values of coordinate c over the points of a track.
Coords(points, c) == {points[k][c] : k \in 1..Len(points)}

Lowest(S) == CHOOSE x \in S : \A y \in S : x <= y

Highest(S) == CHOOSE x \in S : \A y \in S : x >= y

\* C25: for every track and field of view the framing distance lies between
\* minDistance and maxDistance, it is minDistance for a track without ground
\* extent, and the returned target is the centre of the bounding box.
C25_DistanceClamped ==
  fn.result # <<>> =>
    LET r == fn.result[1]
    IN  /\ r.distance >= minDistance * 10
        /\ r.distance <= maxDistance * 10
        /\ (Cardinality(Coords(fn.points, "x")) = 1 /\ Cardinality(Coords(fn.points, "z")) = 1)
              => r.distance = minDistance * 10
        /\ \A c \in {"x", "y", "z"} :
              2 * r.target[c]
                = 10 * (Lowest(Coords(fn.points, c)) + Highest(Coords(fn.points, c)))

\* A track has been framed at a distance strictly between the two limits, with
\* a target off the origin.
C25_Witness ==
  /\ fn.result # <<>>
  /\ fn.fov = cameraFov
  /\ fn.result[1].distance > minDistance * 10
  /\ fn.result[1].distance < maxDistance * 10
  /\ fn.result[1].target.x # 0
  /\ fn.result[1].position # fn.result[1].target

\* p lies between a and b, ends included.
Between(p, a, b) == (a <= p /\ p <= b) \/ (b <= p /\ p <= a)

\* C26: the position a frame of a transition writes is start + eased * (end -
\* start); eased is 0 at progress 0 and 1 at progress 1, its two branches agree
\* at progress 0.5, and it does not decrease from one frame to the next; so
\* every position written lies between the start and the end pose, and between
\* the position of the frame before and the end pose.  The function the camera
\* controller's frames apply is this one.
C26_EasedInterpolation ==
  /\ [](fn.frames > 0 =>
          /\ fn.position[1] * EaseSteps * EaseSteps * EaseSteps
                <= fn.startPosition * EaseSteps * EaseSteps * EaseSteps
                     + fn.easedProgress * (fn.targetPosition - fn.startPosition)
          /\ fn.position[1] * EaseSteps * EaseSteps * EaseSteps
                > fn.startPosition * EaseSteps * EaseSteps * EaseSteps
                    + fn.easedProgress * (fn.targetPosition - fn.startPosition)
                    - EaseSteps * EaseSteps * EaseSteps
          /\ fn.elapsed = 0 => (fn.easedProgress = 0 /\ fn.position[1] = fn.startPosition)
          /\ fn.elapsed >= EaseSteps
                => /\ fn.easedProgress = EaseSteps * EaseSteps * EaseSteps
                   /\ fn.position[1] = fn.targetPosition
          /\ fn.elapsed = EaseHalfSteps
                => /\ easeInBranch(fn.elapsed, EaseSteps) = fn.easedProgress
                   /\ easeOutBranch(fn.elapsed, EaseSteps) = fn.easedProgress
                   /\ 2 * fn.easedProgress = EaseSteps * EaseSteps * EaseSteps
          /\ Between(fn.position[1], fn.startPosition, fn.targetPosition))
  /\ [][(EaseNext /\ fn.frames > 0)
          => /\ fn'.easedProgress >= fn.easedProgress
             /\ Between(fn'.position[1], fn.position[1], fn.targetPosition)]_allVars
  /\ \A e \in 0..TransitionTicks :
       easeInOutCubic(e) = easeInOutCubicAt(e, TransitionTicks)

\* A second or later frame of a transition, in its second half, has left the
\* camera strictly between the start pose and an end pose below it.
C26_Witness ==
  /\ fn.frames > 1
  /\ 2 * fn.elapsed > EaseSteps
  /\ fn.elapsed < EaseSteps
  /\ fn.targetPosition < fn.startPosition
  /\ fn.position[1] < fn.startPosition
  /\ fn.position[1] > fn.targetPosition
  /\ 2 * fn.easedProgress > EaseSteps * EaseSteps * EaseSteps

\* A transition has been started and has neither completed nor been abandoned:
\* its endpoints are recorded and TRANSITIONING is the state, committed or
\* about to be.
InTransition ==
  /\ mounted
  /\ transitionData # <<>>
  /\ animationState = "TRANSITIONING" \/ updState = "TRANSITIONING"

\* C27: a selection-timer tick that falls into a transition changes neither
\* the featured index (committed or enqueued), nor transitionStart, nor the
\* recorded endpoints, nor the state, also when a transition takes longer than
\* the selection interval.
C27_NoRestartMidTransition ==
  [][(SelectionTimerStep /\ InTransition)
       => UNCHANGED <<featuredTrackIndex, updFeatured, transitionStart, transitionData,
                      updState, animationState>>]_vars

\* The selection timer has just ticked in the middle of a transition and
\* re-armed itself; the transition goes on toward the track selected before.
C27_Witness ==
  /\ InTransition
  /\ animationState = "TRANSITIONING"
  /\ now > transitionStart
  /\ now - transitionStart < SlowTransitionTicks
  /\ \E t \in timers : t.kind = "select" /\ t.due = now + IntervalTicks
  /\ featuredTrackIndex = lastSelected
  /\ updFeatured = NoIndexUpdate

\* The values most recently passed to setAnimationState and
\* setFeaturedTrackIndex (the initial values if there was no call).
LatestState == IF updState # NoUpdate THEN updState ELSE animationState

LatestFeatured == IF updFeatured # NoIndexUpdate THEN updFeatured ELSE featuredTrackIndex

\* C28: whenever a selection-timer callback or the 'change' listener of the
\* mounted hook runs, animationStateRef and featuredTrackIndexRef hold the
\* most recently set animationState and featuredTrackIndex.
C28_RefsMirrorState ==
  [][(mounted /\ (SelectionTimerStep \/ InteractionStep))
       => /\ animationStateRef = LatestState
          /\ featuredTrackIndexRef = LatestFeatured]_vars

\* C29: a load that ends after a later load was started changes nothing of
\* what is shown (tracks, centre, error, loading), so that what is finally
\* shown is the outcome of the most recently requested path; and loading stays
\* true as long as the latest load is in flight.
C29_LatestLoadWins ==
  /\ [][(LoadEnds /\ loader'.finished[1].n < loader.started)
          => /\ loader'.tracks = loader.tracks
             /\ loader'.center = loader.center
             /\ loader'.error = loader.error
             /\ loader'.loading = loader.loading]_allVars
  /\ [](\A load \in loader.inflight : load.n = loader.started => loader.loading)

\* C30: while the dataset of a mounted hook is unchanged, the featured track
\* index is null or an index into the current tracks, and once it is not null
\* it does not become null again.
C30_FeaturedIndexValid ==
  /\ [](mounted =>
          \/ featuredTrackIndex = Null
          \/ featuredTrackIndex \in 0..(TrackCount(tracks) - 1))
  /\ [][(mounted /\ mounted' /\ featuredTrackIndex # Null)
          => featuredTrackIndex' # Null]_vars

\* A second selection has been committed: the featured index is the last
\* index of a dataset of several tracks, after it was another one.
C30_Witness ==
  /\ mounted
  /\ TrackCount(tracks) > 1
  /\ featuredTrackIndex = TrackCount(tracks) - 1
  /\ lastSelected = featuredTrackIndex
  /\ prevSelected # Null
  /\ prevSelected # featuredTrackIndex

====
